---- MODULE Spec2Model ----
(***************************************************************************)
(* Model of AutoDoc-AI (src/code): the documentation rewriting pass        *)
(* edit_function_declarations (specification Spec), the workflow of        *)
(* autodoc.py around it (specification Workflow) and the comment formatter *)
(* (specification Formatter).  Byte buffers and texts are sequences of     *)
(* one-character strings; positions are 0-based byte offsets as in the     *)
(* Python source (buffer[p] of the code is buf[p + 1] here).               *)
(***************************************************************************)
EXTENDS Integers, Sequences, FiniteSets, TLC

VARIABLES
    file,               \* index of the input file in AllFiles (state["file_path"])
    source,             \* state["source"]: the byte buffer, progressively rewritten
    new_code,           \* state["new_code"]
    pc,                 \* position inside edit_function_declarations
    step,               \* index of the next item of the tree walk / class loop / insert loop
    class_summaries,    \* class node id -> [kind, items]
    class_order,        \* key order of the class_summaries dict
    function_summaries, \* list of (node, summary); aliased by `summaries` in the code
    calls,              \* history: the calls made to the text-generation collaborator
    applied,            \* history: one record per iteration of the insertion loop
    mark,               \* history: provenance of every byte of source (0 = original)
    input_text,         \* the text handed to the comment formatter
    input_indent,       \* the indent_level handed to wrap_docstring
    formatted,          \* history: the formatter calls made, each on the last output
    at,                 \* the workflow node entered last
    failure,            \* the exception that ended the run inside node `at` ("" for none)
    tree,               \* state["tree"]: index in AllFiles of the parsed file (0: not set)
    class_methods,      \* state["class_methods"]
    import_statements,  \* state["import_statements"]
    tests_code,         \* state["tests_code"]
    md_file,            \* state["md_file"]
    written,            \* the files written so far
    tags,               \* history: the language tags resolved, with the resolving function
    discovered,         \* history: the nodes behind the names discover_function collected
    visited             \* history: the workflow nodes executed, in order

vars == <<file, source, new_code, pc, step, class_summaries, class_order,
          function_summaries, calls, applied, mark, input_text, input_indent,
          formatted, at, failure, tree, class_methods, import_statements,
          tests_code, md_file, written, tags, discovered, visited>>

\* The variables of the comment formatter.
formatter_vars == <<input_text, input_indent, formatted>>

\* The variables of the workflow around edit_function_declarations.
workflow_vars == <<at, failure, tree, class_methods, import_statements,
                   tests_code, md_file, written, tags, discovered, visited>>

\* The variables of edit_function_declarations.
edit_vars == <<file, source, new_code, pc, step, class_summaries, class_order,
               function_summaries, calls, applied, mark>>

(***************************************************************************)
(* Python string and bytes primitives                                      *)
(***************************************************************************)
Str(s) == [i \in 1..Len(s) |-> SubSeq(s, i, i)]

NL == "\n"

Min(S) == CHOOSE x \in S : \A y \in S : x <= y

Max(S) == CHOOSE x \in S : \A y \in S : x >= y

Clip(i, n) == IF i < 0 THEN 0 ELSE IF i > n THEN n ELSE i

\* s[a:b]
Slice(s, a, b) == SubSeq(s, Clip(a, Len(s)) + 1, Clip(b, Len(s)))

\* s[a:]
SliceFrom(s, a) == Slice(s, a, Len(s))

\* s[i:i+len(pat)] == pat
MatchAt(s, pat, i) ==
    /\ i >= 0
    /\ i + Len(pat) <= Len(s)
    /\ \A k \in 1..Len(pat) : s[i + k] = pat[k]

\* bytes.find(pat, start, end): lowest index of pat inside s[start:end], or -1
Find(s, pat, start, end) ==
    LET e == Clip(end, Len(s))
        C == {i \in start..(e - Len(pat)) : MatchAt(s, pat, i)}
    IN  IF C = {} THEN -1 ELSE Min(C)

\* bytes.rfind(pat, start, end): highest index of pat inside s[start:end], or -1
RFind(s, pat, start, end) ==
    LET e == Clip(end, Len(s))
        C == {i \in start..(e - Len(pat)) : MatchAt(s, pat, i)}
    IN  IF C = {} THEN -1 ELSE Max(C)

\* pat in s
Contains(s, pat) == Find(s, pat, 0, Len(s)) # -1

\* s.startswith(pat)
StartsWith(s, pat) == MatchAt(s, pat, 0)

IsSpace(c) == c \in {" ", "\n", "\t", "\r"}

RECURSIVE LStrip(_)
\* s.lstrip()
LStrip(s) ==
    IF s # <<>> /\ IsSpace(Head(s)) THEN LStrip(Tail(s)) ELSE s

RECURSIVE RStrip(_)
\* s.rstrip()
RStrip(s) ==
    IF s # <<>> /\ IsSpace(s[Len(s)]) THEN RStrip(SubSeq(s, 1, Len(s) - 1)) ELSE s

\* s.strip()
Strip(s) == LStrip(RStrip(s))

RECURSIVE SplitLines(_)
\* s.split("\n")
SplitLines(s) ==
    LET p == Find(s, <<NL>>, 0, Len(s))
    IN  IF p = -1 THEN <<s>>
        ELSE <<Slice(s, 0, p)>> \o SplitLines(SliceFrom(s, p + 1))

RECURSIVE SplitWords(_)
\* s.split(): the maximal runs of non-whitespace characters
SplitWords(s) ==
    LET t == LStrip(s)
        W == {i \in 1..Len(t) : IsSpace(t[i])}
        e == IF W = {} THEN Len(t) ELSE Min(W) - 1
    IN  IF t = <<>> THEN <<>>
        ELSE <<SubSeq(t, 1, e)>> \o SplitWords(SubSeq(t, e + 1, Len(t)))

RECURSIVE Join(_, _)
\* sep.join(parts)
Join(parts, sep) ==
    IF parts = <<>> THEN <<>>
    ELSE IF Len(parts) = 1 THEN parts[1]
    ELSE parts[1] \o sep \o Join(Tail(parts), sep)

\* " " * n
Spaces(n) == [i \in 1..n |-> " "]

(***************************************************************************)
(* Comment formatter and message extraction                                *)
(***************************************************************************)
\* The fence lines looked for in a model reply and in the code it holds.  A
\* backquote cannot be written inside a TLA+ string: the byte 0x60 of the code
\* fence is written as a tilde here, and no modelled text holds a real tilde.
CodeFence == Str("~~~")

DocFence == Str("'''")

RECURSIVE ExtractBetween(_, _, _)
\* The loop shared by extract_code_from_message and
\* extract_docstring_from_code: a line holding the fence toggles the flag, any
\* other line is kept (with a line break) while the flag is set.
ExtractBetween(lines, fence, inside) ==
    IF lines = <<>> THEN <<>>
    ELSE IF Contains(Head(lines), fence)
         THEN ExtractBetween(Tail(lines), fence, ~inside)
    ELSE IF inside
         THEN Head(lines) \o <<NL>> \o ExtractBetween(Tail(lines), fence, inside)
    ELSE ExtractBetween(Tail(lines), fence, inside)

extract_code_from_message(message) ==
    ExtractBetween(SplitLines(message), CodeFence, FALSE)

extract_docstring_from_code(code) ==
    ExtractBetween(SplitLines(code), DocFence, FALSE)

wrap_python_comments(text) ==
    LET lines == SplitLines(text)
    IN  Join([i \in 1..Len(lines) |-> Str("/// ") \o lines[i]], <<NL>>)

MarkerWidth == 8

BlockIndent == 4

wrap_docstring(text, indent_level) ==
    IF Strip(text) = <<>> THEN <<>>
    ELSE LET lines == SplitLines(text)
             wrapped_lines ==
                 [i \in 1..Len(lines) |->
                     Spaces(indent_level + BlockIndent)
                         \o SliceFrom(Strip(lines[i]), MarkerWidth)]
         IN  Spaces(indent_level + BlockIndent) \o Str("\"\"\"") \o <<NL>>
                 \o Join(wrapped_lines, <<NL>>) \o Str("\"\"\"")

RECURSIVE WrapWords(_, _, _, _)
\* The inner loop of wrap_triple_slash_comments over words[1:]; yields the
\* lines appended to wrapped_lines for one input line.
WrapWords(words, current_line, indent, max_line_length) ==
    IF words = <<>> THEN <<current_line>>
    ELSE IF Len(current_line) + Len(Head(words)) + 1 > max_line_length
         THEN <<current_line>>
                  \o WrapWords(Tail(words),
                               Spaces(indent) \o Str("/// ") \o Head(words),
                               indent, max_line_length)
    ELSE WrapWords(Tail(words), current_line \o <<" ">> \o Head(words),
                   indent, max_line_length)

RECURSIVE WrapLines(_, _)
\* The outer loop of wrap_triple_slash_comments: it stops (break) at the first
\* line that does not start with the marker.
WrapLines(lines, max_line_length) ==
    IF lines = <<>> THEN <<>>
    ELSE LET line == Strip(Head(lines))
             indent == Len(line) - Len(LStrip(line))
             words == SplitWords(line)
         IN  IF ~StartsWith(line, Str("///")) THEN <<>>
             ELSE WrapWords(Tail(words), Head(words), indent, max_line_length)
                      \o WrapLines(Tail(lines), max_line_length)

wrap_triple_slash_comments(text, max_line_length) ==
    Join(WrapLines(SplitLines(text), max_line_length), <<NL>>)

DefaultMaxLineLength == 120

(***************************************************************************)
(* Input files: source bytes and the nodes of their parse tree that the    *)
(* walks look at (type, start_byte, end_byte, start_point[1], parent,      *)
(* children), as the grammar of the file's language parses them.  `sig` is *)
(* the byte of the delimiter token that ends the declaration's signature   *)
(* (-1 for a node that is no declaration), `name` the text of the node's   *)
(* name field ("" when it has none).  Node ids are indices; 1 is the root. *)
(***************************************************************************)
File_p1_py ==
    [name |-> <<"p1", "py">>,
     source |-> Str("def f():\n    return 1\n"),
     nodes |-> <<
        [type |-> "module", start_byte |-> 0, end_byte |-> 22,
         col |-> 0, parent |-> 0, children |-> <<2>>, sig |-> -1,
         name |-> ""],
        [type |-> "function_definition", start_byte |-> 0, end_byte |-> 21,
         col |-> 0, parent |-> 1, children |-> <<>>, sig |-> 7,
         name |-> "f"] >>]

File_p2_py ==
    [name |-> <<"p2", "py">>,
     source |-> Str("def a():\n 1\ndef b():\n 1\n"),
     nodes |-> <<
        [type |-> "module", start_byte |-> 0, end_byte |-> 24,
         col |-> 0, parent |-> 0, children |-> <<2, 3>>, sig |-> -1,
         name |-> ""],
        [type |-> "function_definition", start_byte |-> 0, end_byte |-> 11,
         col |-> 0, parent |-> 1, children |-> <<>>, sig |-> 7,
         name |-> "a"],
        [type |-> "function_definition", start_byte |-> 12, end_byte |-> 23,
         col |-> 0, parent |-> 1, children |-> <<>>, sig |-> 19,
         name |-> "b"] >>]

File_p3_py ==
    [name |-> <<"p3", "py">>,
     source |-> Str("class A:\n def f(s):\n  1\n def g(s):\n  1\n"),
     nodes |-> <<
        [type |-> "module", start_byte |-> 0, end_byte |-> 39,
         col |-> 0, parent |-> 0, children |-> <<2>>, sig |-> -1,
         name |-> ""],
        [type |-> "class_definition", start_byte |-> 0, end_byte |-> 38,
         col |-> 0, parent |-> 1, children |-> <<3>>, sig |-> 7,
         name |-> ""],
        [type |-> "block", start_byte |-> 10, end_byte |-> 38,
         col |-> 1, parent |-> 2, children |-> <<4, 5>>, sig |-> -1,
         name |-> ""],
        [type |-> "function_definition", start_byte |-> 10, end_byte |-> 23,
         col |-> 1, parent |-> 3, children |-> <<>>, sig |-> 18,
         name |-> "f"],
        [type |-> "function_definition", start_byte |-> 25, end_byte |-> 38,
         col |-> 1, parent |-> 3, children |-> <<>>, sig |-> 33,
         name |-> "g"] >>]

File_p4_py ==
    [name |-> <<"p4", "py">>,
     source |-> Str("def a():\n 1\nclass A:\n def f(s):\n  1\n def g(s):\n  1\n"),
     nodes |-> <<
        [type |-> "module", start_byte |-> 0, end_byte |-> 51,
         col |-> 0, parent |-> 0, children |-> <<2, 3>>, sig |-> -1,
         name |-> ""],
        [type |-> "function_definition", start_byte |-> 0, end_byte |-> 11,
         col |-> 0, parent |-> 1, children |-> <<>>, sig |-> 7,
         name |-> "a"],
        [type |-> "class_definition", start_byte |-> 12, end_byte |-> 50,
         col |-> 0, parent |-> 1, children |-> <<4>>, sig |-> 19,
         name |-> ""],
        [type |-> "block", start_byte |-> 22, end_byte |-> 50,
         col |-> 1, parent |-> 3, children |-> <<5, 6>>, sig |-> -1,
         name |-> ""],
        [type |-> "function_definition", start_byte |-> 22, end_byte |-> 35,
         col |-> 1, parent |-> 4, children |-> <<>>, sig |-> 30,
         name |-> "f"],
        [type |-> "function_definition", start_byte |-> 37, end_byte |-> 50,
         col |-> 1, parent |-> 4, children |-> <<>>, sig |-> 45,
         name |-> "g"] >>]

File_p5_py ==
    [name |-> <<"p5", "py">>,
     source |-> Str("def a():\n 1\ndef f(\n x: int\n):\n 1\n"),
     nodes |-> <<
        [type |-> "module", start_byte |-> 0, end_byte |-> 33,
         col |-> 0, parent |-> 0, children |-> <<2, 3>>, sig |-> -1,
         name |-> ""],
        [type |-> "function_definition", start_byte |-> 0, end_byte |-> 11,
         col |-> 0, parent |-> 1, children |-> <<>>, sig |-> 7,
         name |-> "a"],
        [type |-> "function_definition", start_byte |-> 12, end_byte |-> 32,
         col |-> 0, parent |-> 1, children |-> <<>>, sig |-> 28,
         name |-> "f"] >>]

File_p6_py ==
    [name |-> <<"p6", "py">>,
     source |-> Str("def a():\n 1\ndef b():\n return 1\ndef c(): 1"),
     nodes |-> <<
        [type |-> "module", start_byte |-> 0, end_byte |-> 41,
         col |-> 0, parent |-> 0, children |-> <<2, 3, 4>>, sig |-> -1,
         name |-> ""],
        [type |-> "function_definition", start_byte |-> 0, end_byte |-> 11,
         col |-> 0, parent |-> 1, children |-> <<>>, sig |-> 7,
         name |-> "a"],
        [type |-> "function_definition", start_byte |-> 12, end_byte |-> 30,
         col |-> 0, parent |-> 1, children |-> <<>>, sig |-> 19,
         name |-> "b"],
        [type |-> "function_definition", start_byte |-> 31, end_byte |-> 41,
         col |-> 0, parent |-> 1, children |-> <<>>, sig |-> 38,
         name |-> "c"] >>]

File_p7_py ==
    [name |-> <<"p7", "py">>,
     source |-> Str("class A:\n def f(s):\n  1\n def g(s): 1"),
     nodes |-> <<
        [type |-> "module", start_byte |-> 0, end_byte |-> 36,
         col |-> 0, parent |-> 0, children |-> <<2>>, sig |-> -1,
         name |-> ""],
        [type |-> "class_definition", start_byte |-> 0, end_byte |-> 36,
         col |-> 0, parent |-> 1, children |-> <<3>>, sig |-> 7,
         name |-> ""],
        [type |-> "block", start_byte |-> 10, end_byte |-> 36,
         col |-> 1, parent |-> 2, children |-> <<4, 5>>, sig |-> -1,
         name |-> ""],
        [type |-> "function_definition", start_byte |-> 10, end_byte |-> 23,
         col |-> 1, parent |-> 3, children |-> <<>>, sig |-> 18,
         name |-> "f"],
        [type |-> "function_definition", start_byte |-> 25, end_byte |-> 36,
         col |-> 1, parent |-> 3, children |-> <<>>, sig |-> 33,
         name |-> "g"] >>]

File_p8_py ==
    [name |-> <<"p8", "py">>,
     source |-> Str("def a():\n 1\nclass B:\n x = 1\n"),
     nodes |-> <<
        [type |-> "module", start_byte |-> 0, end_byte |-> 28,
         col |-> 0, parent |-> 0, children |-> <<2, 3>>, sig |-> -1,
         name |-> ""],
        [type |-> "function_definition", start_byte |-> 0, end_byte |-> 11,
         col |-> 0, parent |-> 1, children |-> <<>>, sig |-> 7,
         name |-> "a"],
        [type |-> "class_definition", start_byte |-> 12, end_byte |-> 27,
         col |-> 0, parent |-> 1, children |-> <<4>>, sig |-> 19,
         name |-> ""],
        [type |-> "block", start_byte |-> 22, end_byte |-> 27,
         col |-> 1, parent |-> 3, children |-> <<5>>, sig |-> -1,
         name |-> ""],
        [type |-> "expression_statement", start_byte |-> 22, end_byte |-> 27,
         col |-> 1, parent |-> 4, children |-> <<>>, sig |-> -1,
         name |-> ""] >>]

File_j1_js ==
    [name |-> <<"j1", "js">>,
     source |-> Str("// default\nfunction a() {}\nfunction b() {}\n"),
     nodes |-> <<
        [type |-> "program", start_byte |-> 0, end_byte |-> 43,
         col |-> 0, parent |-> 0, children |-> <<2, 3, 4>>, sig |-> -1,
         name |-> ""],
        [type |-> "comment", start_byte |-> 0, end_byte |-> 10,
         col |-> 0, parent |-> 1, children |-> <<>>, sig |-> -1,
         name |-> ""],
        [type |-> "function_declaration", start_byte |-> 11, end_byte |-> 26,
         col |-> 0, parent |-> 1, children |-> <<>>, sig |-> 24,
         name |-> "a"],
        [type |-> "function_declaration", start_byte |-> 27, end_byte |-> 42,
         col |-> 0, parent |-> 1, children |-> <<>>, sig |-> 40,
         name |-> "b"] >>]

File_s1_swift ==
    [name |-> <<"s1", "swift">>,
     source |-> Str("func a() {}\nclass A {\n func f() {}\n}\n"),
     nodes |-> <<
        [type |-> "source_file", start_byte |-> 0, end_byte |-> 37,
         col |-> 0, parent |-> 0, children |-> <<2, 3>>, sig |-> -1,
         name |-> ""],
        [type |-> "function_declaration", start_byte |-> 0, end_byte |-> 11,
         col |-> 0, parent |-> 1, children |-> <<>>, sig |-> 9,
         name |-> "a"],
        [type |-> "class_declaration", start_byte |-> 12, end_byte |-> 36,
         col |-> 0, parent |-> 1, children |-> <<4>>, sig |-> 20,
         name |-> ""],
        [type |-> "class_body", start_byte |-> 20, end_byte |-> 36,
         col |-> 8, parent |-> 3, children |-> <<5>>, sig |-> -1,
         name |-> ""],
        [type |-> "function_declaration", start_byte |-> 23, end_byte |-> 34,
         col |-> 1, parent |-> 4, children |-> <<>>, sig |-> 32,
         name |-> "f"] >>]

File_s2_swift ==
    [name |-> <<"s2", "swift">>,
     source |-> Str("import F\nenum E {\n case a\n}\n"),
     nodes |-> <<
        [type |-> "source_file", start_byte |-> 0, end_byte |-> 28,
         col |-> 0, parent |-> 0, children |-> <<2, 3>>, sig |-> -1,
         name |-> ""],
        [type |-> "import_declaration", start_byte |-> 0, end_byte |-> 8,
         col |-> 0, parent |-> 1, children |-> <<>>, sig |-> -1,
         name |-> ""],
        [type |-> "class_declaration", start_byte |-> 9, end_byte |-> 27,
         col |-> 0, parent |-> 1, children |-> <<4>>, sig |-> 16,
         name |-> ""],
        [type |-> "enum_class_body", start_byte |-> 16, end_byte |-> 27,
         col |-> 7, parent |-> 3, children |-> <<5>>, sig |-> -1,
         name |-> ""],
        [type |-> "enum_entry", start_byte |-> 19, end_byte |-> 25,
         col |-> 1, parent |-> 4, children |-> <<>>, sig |-> -1,
         name |-> ""] >>]

File_p9_py ==
    [name |-> <<"p9", "py">>,
     source |-> Str("@d\ndef a():\n 1\nif x:\n def b():\n  1\ndef c():\n 1\n"),
     nodes |-> <<
        [type |-> "module", start_byte |-> 0, end_byte |-> 47,
         col |-> 0, parent |-> 0, children |-> <<2, 5, 8>>, sig |-> -1,
         name |-> ""],
        [type |-> "decorated_definition", start_byte |-> 0, end_byte |-> 14,
         col |-> 0, parent |-> 1, children |-> <<3, 4>>, sig |-> -1,
         name |-> ""],
        [type |-> "decorator", start_byte |-> 0, end_byte |-> 2,
         col |-> 0, parent |-> 2, children |-> <<>>, sig |-> -1,
         name |-> ""],
        [type |-> "function_definition", start_byte |-> 3, end_byte |-> 14,
         col |-> 0, parent |-> 2, children |-> <<>>, sig |-> 10,
         name |-> "a"],
        [type |-> "if_statement", start_byte |-> 15, end_byte |-> 34,
         col |-> 0, parent |-> 1, children |-> <<6>>, sig |-> -1,
         name |-> ""],
        [type |-> "block", start_byte |-> 22, end_byte |-> 34,
         col |-> 1, parent |-> 5, children |-> <<7>>, sig |-> -1,
         name |-> ""],
        [type |-> "function_definition", start_byte |-> 22, end_byte |-> 34,
         col |-> 1, parent |-> 6, children |-> <<>>, sig |-> 29,
         name |-> "b"],
        [type |-> "function_definition", start_byte |-> 35, end_byte |-> 46,
         col |-> 0, parent |-> 1, children |-> <<>>, sig |-> 42,
         name |-> "c"] >>]

File_t1_ts ==
    [name |-> <<"t1", "ts">>,
     source |-> Str("function a() {}\n"),
     nodes |-> <<
        [type |-> "program", start_byte |-> 0, end_byte |-> 16,
         col |-> 0, parent |-> 0, children |-> <<2>>, sig |-> -1,
         name |-> ""],
        [type |-> "function_declaration", start_byte |-> 0, end_byte |-> 15,
         col |-> 0, parent |-> 1, children |-> <<>>, sig |-> 13,
         name |-> "a"] >>]

File_q1_py_bak ==
    [name |-> <<"q1", "py", "bak">>,
     source |-> Str("def a():\n 1\n"),
     nodes |-> <<
        [type |-> "module", start_byte |-> 0, end_byte |-> 12,
         col |-> 0, parent |-> 0, children |-> <<2>>, sig |-> -1,
         name |-> ""],
        [type |-> "function_definition", start_byte |-> 0, end_byte |-> 11,
         col |-> 0, parent |-> 1, children |-> <<>>, sig |-> 7,
         name |-> "a"] >>]

Files ==
    <<File_p1_py,
      File_p2_py,
      File_p3_py,
      File_p4_py,
      File_p5_py,
      File_p6_py,
      File_p7_py,
      File_p8_py,
      File_j1_js,
      File_s1_swift,
      File_s2_swift,
      File_p9_py,
      File_t1_ts,
      File_q1_py_bak>>

\* Files whose names parse_source does not accept; they are never parsed.
Rejected ==
    << [name |-> <<"my", "module", "py">>, source |-> Str("def a():\n 1\n"), nodes |-> <<>>],
       [name |-> <<"a", "rb">>, source |-> Str("def a\nend\n"), nodes |-> <<>>],
       [name |-> <<"README">>, source |-> Str("text\n"), nodes |-> <<>>] >>

\* The number of functions of the file m1.py.
ManyFunctions == 100

RECURSIVE Repeat(_, _)
Repeat(t, n) == IF n = 0 THEN <<>> ELSE t \o Repeat(t, n - 1)

\* m1.py: ManyFunctions times the function of q1.py.bak, one after the other.
File_m1_py ==
    [name |-> <<"m1", "py">>,
     source |-> Repeat(Str("def a():\n 1\n"), ManyFunctions),
     nodes |->
        << [type |-> "module", start_byte |-> 0, end_byte |-> 12 * ManyFunctions,
            col |-> 0, parent |-> 0,
            children |-> [i \in 1..ManyFunctions |-> i + 1], sig |-> -1,
            name |-> ""] >>
        \o [i \in 1..ManyFunctions |->
               [type |-> "function_definition", start_byte |-> 12 * (i - 1),
                end_byte |-> 12 * (i - 1) + 11, col |-> 0, parent |-> 1,
                children |-> <<>>, sig |-> 12 * (i - 1) + 7, name |-> "a"]]]

AllFiles == Files \o Rejected \o <<File_m1_py>>

LANG_MAPPINGS ==
    [e \in {"py", "js", "ts", "swift"} |->
        CASE e = "py" -> "python"
          [] e = "js" -> "javascript"
          [] e = "ts" -> "typescript"
          [] e = "swift" -> "swift"]

\* ext = LANG_MAPPINGS[file.split(".")[1]]
Ext(f) == LANG_MAPPINGS[AllFiles[f].name[2]]

NodeOf(f, n) == AllFiles[f].nodes[n]

\* node.text
NodeText(f, n) ==
    Slice(AllFiles[f].source, NodeOf(f, n).start_byte, NodeOf(f, n).end_byte)

ClassTypes == {"class_declaration", "class_definition"}

FunctionTypes == {"function_declaration", "function_definition", "property_declaration"}

BodyTypes == {"class_body", "block"}

(***************************************************************************)
(* The text-generation collaborator.  A call either returns a text or      *)
(* raises: [ok |-> TRUE, text |-> t] or Raised.                            *)
(***************************************************************************)
Returned(t) == [ok |-> TRUE, text |-> t]

Raised == [ok |-> FALSE, text |-> <<>>]

NotCalled == [ok |-> FALSE, text |-> Str("-")]

\* Replies of the function-documentation chain (result["text"]).
PythonReplies ==
    { <<>>,
      Str(" "),
      CodeFence \o Str("\n'''\n    Ab\n'''\n") \o CodeFence,
      CodeFence \o Str("\n'''\n    A: b\n'''\n") \o CodeFence }

SwiftReplies == { <<>>, Str(" "), Str("/// Ab"), Str("Ab") }

\* Replies of the summarize chain (sum_chain.invoke).
PythonSummaries == { <<>>, Str("'''\n    Cd\n'''") }

SwiftSummaries == { <<>>, Str("/// Cd") }

PrimaryOutcomes(ext) ==
    {Raised} \cup {Returned(t) : t \in IF ext = "swift" THEN SwiftReplies ELSE PythonReplies}

SummarizeOutcomes(ext) ==
    {Raised} \cup {Returned(t) : t \in IF ext = "swift" THEN SwiftSummaries ELSE PythonSummaries}

\* The most calls of the collaborator that raise in one run.
MaxRaises == 2

\* The most nodes of a file for which every outcome of a call is tried.
MaxVariedNodes == 20

\* The outcomes tried for a call made for file f: all of them, or, for a file
\* of more than MaxVariedNodes nodes, the reply `usual` alone.
Drawn(f, outcomes, usual) ==
    IF Len(AllFiles[f].nodes) > MaxVariedNodes THEN {Returned(usual)} ELSE outcomes

\* Usual replies of the function-documentation chain and of the test chain.
UsualDocumentation == CodeFence \o Str("\n'''\n    Ab\n'''\n") \o CodeFence

UsualTest == CodeFence \o Str("\ndef t(): 1\n") \o CodeFence

RaiseCount(log) == Cardinality({i \in 1..Len(log) : ~log[i].result.ok})

\* chain_summarize(text, ext), `reply` being what sum_chain.invoke does
chain_summarize(reply, ext) ==
    IF ~reply.ok THEN <<>>
    ELSE IF ext = "swift"
         THEN wrap_triple_slash_comments(reply.text, DefaultMaxLineLength)
    ELSE wrap_python_comments(extract_docstring_from_code(reply.text))

\* generate_function_documentation(function_implementation, ext), `text` being
\* result["text"] of the chain
generate_function_documentation(text, ext) ==
    IF ext = "swift"
    THEN wrap_triple_slash_comments(text, DefaultMaxLineLength)
    ELSE extract_code_from_message(text)

\* generate_function_summary without its except clause.
GenerateFunctionSummaryNoFallback(primary, fallback, ext) ==
    IF ~primary.ok THEN [raised |-> TRUE, value |-> <<>>]
    ELSE IF ext = "swift"
         THEN [raised |-> FALSE,
               value |-> wrap_triple_slash_comments(
                             generate_function_documentation(primary.text, ext),
                             DefaultMaxLineLength)]
    ELSE [raised |-> FALSE,
          value |-> wrap_python_comments(extract_docstring_from_code(
                        generate_function_documentation(primary.text, ext)))]

\* generate_function_summary(function, ext): `primary` is what the
\* documentation chain does, `fallback` what the summarize chain does when it is
\* called.  `raised` tells whether an exception leaves the function.
generate_function_summary(primary, fallback, ext) ==
    IF ~primary.ok
    THEN [raised |-> FALSE, value |-> chain_summarize(fallback, ext)]
    ELSE IF ext = "swift"
         THEN [raised |-> FALSE,
               value |-> wrap_triple_slash_comments(
                             generate_function_documentation(primary.text, ext),
                             DefaultMaxLineLength)]
    ELSE [raised |-> FALSE,
          value |-> wrap_python_comments(extract_docstring_from_code(
                        generate_function_documentation(primary.text, ext)))]

CombinedHeader ==
    Str("/// Documentation of all methods and properties in the current type, should not be included in final documentation:\n///\n")

RECURSIVE Reverse(_)
Reverse(q) == IF q = <<>> THEN <<>> ELSE Append(Reverse(Tail(q)), Head(q))

\* The request with the member summaries in reverse order.
CombinedRequestReversed(summaries) ==
    CombinedHeader \o Join(Reverse(summaries), Str("\n///\n"))

\* The text generate_combined_summary hands to chain_summarize.
CombinedRequest(summaries) == CombinedHeader \o Join(summaries, Str("\n///\n"))

(***************************************************************************)
(* The tree walk of edit_function_declarations, as the list of its steps   *)
(***************************************************************************)
\* next((child for child in node.children if child.type in [...]), None); 0 is None
ClassBody(f, n) ==
    LET kids == NodeOf(f, n).children
        B == {i \in 1..Len(kids) : NodeOf(f, kids[i]).type \in BodyTypes}
    IN  IF B = {} THEN 0 ELSE kids[Min(B)]

\* The nodes process_function_declarations(class_node) handles, in order.
FunctionChildren(f, n) ==
    LET IsFunction(c) == NodeOf(f, c).type \in FunctionTypes
    IN  SelectSeq(NodeOf(f, n).children, IsFunction)

GenItems(ns) == [i \in 1..Len(ns) |-> [op |-> "gen", node |-> ns[i]]]

RECURSIVE WalkClasses(_, _)
RECURSIVE WalkEach(_, _)
\* process_class_declarations(cursor) at node n: the node itself, then its
\* children from first to last.
WalkClasses(f, n) ==
    (IF NodeOf(f, n).type \in ClassTypes
     THEN <<[op |-> "class", node |-> n]>>
              \o (IF ClassBody(f, n) # 0
                  THEN GenItems(FunctionChildren(f, ClassBody(f, n)))
                  ELSE <<>>)
              \o <<[op |-> "close", node |-> n]>>
     ELSE <<>>)
        \o WalkEach(f, NodeOf(f, n).children)

WalkEach(f, ns) ==
    IF ns = <<>> THEN <<>> ELSE WalkClasses(f, Head(ns)) \o WalkEach(f, Tail(ns))

\* process_class_declarations(cursor); process_function_declarations(root_node)
WalkPlan(f) == WalkClasses(f, 1) \o GenItems(FunctionChildren(f, 1))

(***************************************************************************)
(* The insertion loop of edit_function_declarations                        *)
(***************************************************************************)
RECURSIVE InsertByStartByte(_, _, _)
\* e put behind every entry of the sorted list s whose key is not larger
InsertByStartByte(f, e, s) ==
    IF s = <<>> THEN <<e>>
    ELSE IF NodeOf(f, Head(s).node).start_byte > NodeOf(f, e.node).start_byte
         THEN <<e>> \o s
    ELSE <<Head(s)>> \o InsertByStartByte(f, e, Tail(s))

RECURSIVE StableSort(_, _)
StableSort(f, s) ==
    IF s = <<>> THEN <<>>
    ELSE InsertByStartByte(f, s[Len(s)], StableSort(f, SubSeq(s, 1, Len(s) - 1)))

\* The list left as it was appended.
Unsorted(f, s) == s

\* summaries.sort(key=lambda x: x[0].start_byte): a stable ascending sort
SortByStartByte(f, s) == StableSort(f, s)

\* Swift branch: the summary re-indented to the node's column, the first
\* line's indent cut off, a line break and the indent appended.
SwiftBlock(col, summary) ==
    LET indent == Spaces(col)
        lines == SplitLines(summary)
        joined == Join([i \in 1..Len(lines) |-> indent \o lines[i]], <<NL>>)
    IN  SliceFrom(joined, col) \o <<NL>> \o indent

\* def_start = state["source"].rfind(b'def', 0, node.start_byte)
DefStart(src, node) == RFind(src, Str("def"), 0, node.start_byte)

\* signature_end = state["source"].find(b':', node.start_byte, node.end_byte) + 1
SignatureEnd(src, node) == Find(src, <<":">>, node.start_byte, node.end_byte) + 1

\* state["source"].find(b'\n', signature_end) + 1
AfterLineBreak(src, node) == Find(src, <<NL>>, SignatureEnd(src, node), Len(src)) + 1

\* The fallback is taken: insert_position <= signature_end
TakesFallback(src, node) == AfterLineBreak(src, node) <= SignatureEnd(src, node)

\* insert_position of the non-Swift branch
InsertPosition(src, node) ==
    IF TakesFallback(src, node)
    THEN RFind(src, <<NL>>, 0, DefStart(src, node)) + 1
    ELSE AfterLineBreak(src, node)

\* One iteration of the loop body on buffer src: where it inserts (-1: nowhere)
\* and the bytes it inserts.
Edit(src, f, entry) ==
    LET node == NodeOf(f, entry.node)
        docstring == wrap_docstring(entry.summary, node.col)
    IN  IF Ext(f) = "swift"
        THEN [pos |-> node.start_byte, text |-> SwiftBlock(node.col, entry.summary)]
        ELSE IF docstring # <<>> /\ DefStart(src, node) # -1
             THEN [pos |-> InsertPosition(src, node),
                   text |-> docstring \o <<NL, NL>>]
        ELSE [pos |-> -1, text |-> <<>>]

\* state["source"][:pos] + text + state["source"][pos:]
Splice(buf, pos, text) ==
    IF pos = -1 THEN buf ELSE Slice(buf, 0, pos) \o text \o SliceFrom(buf, pos)

RECURSIVE RewriteFrom(_, _, _, _)
\* for node, summary in reversed(summaries): the entries k, k-1, .. 1 of sorted
RewriteFrom(src, f, sorted, k) ==
    IF k = 0 THEN src
    ELSE LET e == Edit(src, f, sorted[k])
         IN  RewriteFrom(Splice(src, e.pos, e.text), f, sorted, k - 1)

\* The whole pass on the list as appended: sort, then insert in reverse.
RewritePass(f, appended) ==
    RewriteFrom(AllFiles[f].source, f, SortByStartByte(f, appended),
                Len(appended))

(***************************************************************************)
(* edit_function_declarations as a state machine                           *)
(***************************************************************************)
Original == AllFiles[file].source

Entry(n, text) == [node |-> n, summary |-> text]

Call(kind, n, request, result) ==
    [kind |-> kind, node |-> n, request |-> request, result |-> result]

\* Where the function goes on after item `step` of the walk.
AfterWalk(order) ==
    IF step < Len(WalkPlan(file)) THEN "walk"
    ELSE IF order # <<>> THEN "combine"
    ELSE "sort"

AfterCombine == IF step < Len(class_order) THEN "combine" ELSE "sort"

NextStep(to) == IF to = pc THEN step + 1 ELSE 1

Init ==
    /\ file \in 1..Len(Files)
    /\ source = AllFiles[file].source
    /\ new_code = <<>>
    /\ pc = "walk"
    /\ step = 1
    /\ class_summaries = <<>>
    /\ class_order = <<>>
    /\ function_summaries = <<>>
    /\ calls = <<>>
    /\ applied = <<>>
    /\ mark = [i \in 1..Len(AllFiles[file].source) |-> 0]
    /\ input_text = <<>>
    /\ input_indent = 0
    /\ formatted = <<>>
    /\ at = "edit_function_declarations"
    /\ failure = ""
    /\ tree = file
    /\ class_methods = <<>>
    /\ import_statements = <<>>
    /\ tests_code = <<>>
    /\ md_file = <<>>
    /\ written = {}
    /\ tags = <<>>
    /\ discovered = <<>>
    /\ visited = <<>>

\* process_class_declarations at a class node: class_summaries[node.id] = []
ProcessClassDeclaration ==
    /\ pc = "walk"
    /\ WalkPlan(file)[step].op = "class"
    /\ LET n == WalkPlan(file)[step].node
       IN  /\ class_summaries' = class_summaries @@ (n :> [kind |-> "list", items |-> <<>>])
           /\ class_order' = Append(class_order, n)
           /\ pc' = AfterWalk(class_order')
           /\ step' = NextStep(pc')
    /\ UNCHANGED <<file, source, new_code, function_summaries, calls, applied, mark>>
    /\ UNCHANGED formatter_vars
    /\ UNCHANGED workflow_vars

\* One iteration of the loop of process_function_declarations: the summary is
\* generated, appended to the enclosing class's list when the grandparent is
\* a class, and appended to function_summaries.
ProcessFunctionDeclaration ==
    /\ pc = "walk"
    /\ WalkPlan(file)[step].op = "gen"
    /\ \E primary \in Drawn(file, PrimaryOutcomes(Ext(file)), UsualDocumentation) :
       \E fallback \in (IF primary.ok THEN {NotCalled} ELSE SummarizeOutcomes(Ext(file))) :
          LET n == WalkPlan(file)[step].node
              parent == NodeOf(file, n).parent
              grandparent == IF parent # 0 THEN NodeOf(file, parent).parent ELSE 0
              r == generate_function_summary(primary, fallback, Ext(file))
              made == <<Call("primary", n, NodeText(file, n), primary)>>
                          \o (IF primary.ok THEN <<>>
                              ELSE <<Call("fallback", n, NodeText(file, n), fallback)>>)
          IN  /\ RaiseCount(calls \o made) <= MaxRaises
              /\ calls' = calls \o made
              /\ IF r.raised
                 THEN /\ pc' = "aborted"
                      /\ UNCHANGED <<step, class_summaries, function_summaries>>
                 ELSE /\ class_summaries' =
                            IF grandparent # 0 /\ NodeOf(file, grandparent).type \in ClassTypes
                            THEN [class_summaries EXCEPT ![grandparent].items =
                                      Append(@, Entry(n, r.value))]
                            ELSE class_summaries
                      /\ function_summaries' = Append(function_summaries, Entry(n, r.value))
                      /\ pc' = AfterWalk(class_order)
                      /\ step' = NextStep(pc')
    /\ UNCHANGED <<file, source, new_code, class_order, applied, mark>>
    /\ UNCHANGED formatter_vars
    /\ UNCHANGED workflow_vars

\* process_class_declarations after the class body:
\* if not class_summaries[node.id]: class_summaries[node.id] = node
CloseClassDeclaration ==
    /\ pc = "walk"
    /\ WalkPlan(file)[step].op = "close"
    /\ LET n == WalkPlan(file)[step].node
       IN  class_summaries' =
               IF class_summaries[n].items = <<>>
               THEN [class_summaries EXCEPT ![n].kind = "node"]
               ELSE class_summaries
    /\ pc' = AfterWalk(class_order)
    /\ step' = NextStep(pc')
    /\ UNCHANGED <<file, source, new_code, class_order, function_summaries, calls,
                   applied, mark>>
    /\ UNCHANGED formatter_vars
    /\ UNCHANGED workflow_vars

\* The loop over class_summaries.items(), a class with member summaries: the
\* combined summary is anchored at children[0][0].parent.parent.
CombineClassSummaries ==
    /\ pc = "combine"
    /\ class_summaries[class_order[step]].kind = "list"
    /\ \E reply \in SummarizeOutcomes(Ext(file)) :
          LET children == class_summaries[class_order[step]].items
              texts == [i \in 1..Len(children) |-> children[i].summary]
              anchor == NodeOf(file, NodeOf(file, children[1].node).parent).parent
              made == <<Call("combined", anchor, CombinedRequest(texts), reply)>>
          IN  /\ RaiseCount(calls \o made) <= MaxRaises
              /\ calls' = calls \o made
              /\ function_summaries' =
                     Append(function_summaries,
                            Entry(anchor, chain_summarize(reply, Ext(file))))
    /\ pc' = AfterCombine
    /\ step' = NextStep(pc')
    /\ UNCHANGED <<file, source, new_code, class_summaries, class_order, applied, mark>>
    /\ UNCHANGED formatter_vars
    /\ UNCHANGED workflow_vars

\* A class without member summaries sent through generate_combined_summary.
SummarizeBareClassCombined ==
    /\ pc = "combine"
    /\ class_summaries[class_order[step]].kind = "node"
    /\ \E reply \in SummarizeOutcomes(Ext(file)) :
          LET n == class_order[step]
              made == <<Call("combined", n, CombinedRequest(<<>>), reply)>>
          IN  /\ RaiseCount(calls \o made) <= MaxRaises
              /\ calls' = calls \o made
              /\ function_summaries' =
                     Append(function_summaries,
                            Entry(n, chain_summarize(reply, Ext(file))))
    /\ pc' = AfterCombine
    /\ step' = NextStep(pc')
    /\ UNCHANGED <<file, source, new_code, class_summaries, class_order, applied, mark>>
    /\ UNCHANGED formatter_vars
    /\ UNCHANGED workflow_vars

\* The loop over class_summaries.items(), a class without member summaries:
\* chain_summarize on the class's own text, anchored at the class node.
SummarizeBareClass ==
    /\ pc = "combine"
    /\ class_summaries[class_order[step]].kind = "node"
    /\ \E reply \in SummarizeOutcomes(Ext(file)) :
          LET n == class_order[step]
              made == <<Call("class", n, NodeText(file, n), reply)>>
          IN  /\ RaiseCount(calls \o made) <= MaxRaises
              /\ calls' = calls \o made
              /\ function_summaries' =
                     Append(function_summaries,
                            Entry(n, chain_summarize(reply, Ext(file))))
    /\ pc' = AfterCombine
    /\ step' = NextStep(pc')
    /\ UNCHANGED <<file, source, new_code, class_summaries, class_order, applied, mark>>
    /\ UNCHANGED formatter_vars
    /\ UNCHANGED workflow_vars

\* summaries.sort(key=lambda x: x[0].start_byte)
SortSummaries ==
    /\ pc = "sort"
    /\ function_summaries' = SortByStartByte(file, function_summaries)
    /\ pc' = "insert"
    /\ step' = 1
    /\ UNCHANGED <<file, source, new_code, class_summaries, class_order, calls,
                   applied, mark>>
    /\ UNCHANGED formatter_vars
    /\ UNCHANGED workflow_vars

\* The list walked from its first entry.
Forward(k) == function_summaries[k]

\* The entry the insertion loop handles in its iteration k.
Reversed(k) == function_summaries[Len(function_summaries) - k + 1]

\* An insertion loop that asks for the documentation of the entry's node again
\* in its own iteration.
InsertSummaryRegenerating ==
    /\ pc = "insert"
    /\ step <= Len(function_summaries)
    /\ LET entry == Reversed(step)
           node == NodeOf(file, entry.node)
           e == Edit(source, file, entry)
       IN  /\ source' = Splice(source, e.pos, e.text)
           /\ mark' = Splice(mark, e.pos, [i \in 1..Len(e.text) |-> step])
           /\ applied' = Append(applied,
                  [node |-> entry.node,
                   pos |-> e.pos,
                   text |-> e.text,
                   fallback |-> e.pos # -1 /\ Ext(file) # "swift"
                                    /\ TakesFallback(source, node),
                   intact |-> Slice(source, 0, node.start_byte)
                                  = Slice(Original, 0, node.start_byte),
                   sig_intact |-> Slice(source, 0, node.sig + 1)
                                      = Slice(Original, 0, node.sig + 1),
                   inside |-> /\ e.pos > 0
                              /\ e.pos < Len(mark)
                              /\ mark[e.pos] # 0
                              /\ mark[e.pos] = mark[e.pos + 1]])
    /\ step' = step + 1
    /\ calls' = Append(calls, Call("primary", Reversed(step).node,
                                  NodeText(file, Reversed(step).node),
                                  Returned(UsualDocumentation)))
    /\ UNCHANGED <<file, new_code, pc, class_summaries, class_order,
                   function_summaries>>
    /\ UNCHANGED formatter_vars
    /\ UNCHANGED workflow_vars

\* One iteration of `for node, summary in reversed(summaries)`.
InsertSummary ==
    /\ pc = "insert"
    /\ step <= Len(function_summaries)
    /\ LET entry == Reversed(step)
           node == NodeOf(file, entry.node)
           e == Edit(source, file, entry)
       IN  /\ source' = Splice(source, e.pos, e.text)
           /\ mark' = Splice(mark, e.pos, [i \in 1..Len(e.text) |-> step])
           /\ applied' = Append(applied,
                  [node |-> entry.node,
                   pos |-> e.pos,
                   text |-> e.text,
                   fallback |-> e.pos # -1 /\ Ext(file) # "swift"
                                    /\ TakesFallback(source, node),
                   intact |-> Slice(source, 0, node.start_byte)
                                  = Slice(Original, 0, node.start_byte),
                   sig_intact |-> Slice(source, 0, node.sig + 1)
                                      = Slice(Original, 0, node.sig + 1),
                   inside |-> /\ e.pos > 0
                              /\ e.pos < Len(mark)
                              /\ mark[e.pos] # 0
                              /\ mark[e.pos] = mark[e.pos + 1]])
    /\ step' = step + 1
    /\ UNCHANGED <<file, new_code, pc, class_summaries, class_order,
                   function_summaries, calls>>
    /\ UNCHANGED formatter_vars
    /\ UNCHANGED workflow_vars

\* state["new_code"] = state["source"].decode("utf8"); return state
Finish ==
    /\ pc = "insert"
    /\ step > Len(function_summaries)
    /\ new_code' = source
    /\ pc' = "done"
    /\ UNCHANGED <<file, source, step, class_summaries, class_order,
                   function_summaries, calls, applied, mark>>
    /\ UNCHANGED formatter_vars
    /\ UNCHANGED workflow_vars

Next ==
    \/ ProcessClassDeclaration
    \/ ProcessFunctionDeclaration
    \/ CloseClassDeclaration
    \/ CombineClassSummaries
    \/ SummarizeBareClass
    \/ SortSummaries
    \/ InsertSummary
    \/ Finish

Spec == Init /\ [][Next]_vars

(***************************************************************************)
(* The workflow of autodoc.py: read_file, parse_source, discover,          *)
(* edit_function_declarations (the actions above), write_file_comments,    *)
(* documentation, write_md_file, write_tests until should_continue says    *)
(* "end", write_test_file.  An exception that leaves a node ends the run.  *)
(***************************************************************************)
\* file.split("."), file being the last component of state["file_path"]
Name(f) == AllFiles[f].name

\* ext = LANG_MAPPINGS[file.split(".")[1]], or the exception it raises
Resolve(name) ==
    IF Len(name) < 2 THEN [ok |-> FALSE, error |-> "IndexError", ext |-> ""]
    ELSE IF name[2] \notin DOMAIN LANG_MAPPINGS
         THEN [ok |-> FALSE, error |-> "KeyError", ext |-> ""]
    ELSE [ok |-> TRUE, error |-> "", ext |-> LANG_MAPPINGS[name[2]]]

MethodTypes == {"function_declaration", "function_definition"}

\* discover_function.process_methods(class_node): the children that are
\* functions and have a name field
process_methods(f, n) ==
    LET IsMethod(c) == NodeOf(f, c).type \in MethodTypes /\ NodeOf(f, c).name # ""
    IN  SelectSeq(NodeOf(f, n).children, IsMethod)

RECURSIVE DiscoverClasses(_, _)
RECURSIVE DiscoverEach(_, _)
\* discover_function.process_class_declarations(cursor) at node n: the method
\* nodes it collects
DiscoverClasses(f, n) ==
    (IF NodeOf(f, n).type \in ClassTypes /\ ClassBody(f, n) # 0
     THEN process_methods(f, ClassBody(f, n))
     ELSE <<>>)
        \o DiscoverEach(f, NodeOf(f, n).children)

DiscoverEach(f, ns) ==
    IF ns = <<>> THEN <<>>
    ELSE DiscoverClasses(f, Head(ns)) \o DiscoverEach(f, Tail(ns))

RECURSIVE DiscoverImports(_, _)
RECURSIVE DiscoverImportsEach(_, _)
\* discover_function.process_class_declarations(cursor) at node n: the import
\* statements it collects
DiscoverImports(f, n) ==
    (IF NodeOf(f, n).type \notin ClassTypes /\ NodeOf(f, n).type = "import_declaration"
     THEN <<Strip(NodeText(f, n))>>
     ELSE <<>>)
        \o DiscoverImportsEach(f, NodeOf(f, n).children)

DiscoverImportsEach(f, ns) ==
    IF ns = <<>> THEN <<>>
    ELSE DiscoverImports(f, Head(ns)) \o DiscoverImportsEach(f, Tail(ns))

\* process_class_declarations(cursor); process_methods(root_node)
DiscoveredNodes(f) == DiscoverClasses(f, 1) \o process_methods(f, 1)

\* Replies of the chains of discover_function, write_tests_function and
\* documentation.
\* config = {"recursion_limit": 100}: the most nodes app.invoke executes.
recursion_limit == 100

ImportReplies == { CodeFence \o Str("\nimport x\n") \o CodeFence }

TestReplies == { CodeFence \o Str("\ndef t(): 1\n") \o CodeFence, Str("# No test to write") }

MarkdownReplies == { Str("## a") }

Outcomes(replies) == {Raised} \cup {Returned(t) : t \in replies}

should_continue == IF Len(class_methods) = 0 THEN "end" ELSE "continue"

Output(dir, path, content) == [dir |-> dir, path |-> path, content |-> content]

WorkflowInit ==
    /\ file \in 1..Len(AllFiles)
    /\ at = "START"
    /\ failure = ""
    /\ source = <<>>
    /\ tree = 0
    /\ new_code = <<>>
    /\ pc = "idle"
    /\ step = 1
    /\ class_summaries = <<>>
    /\ class_order = <<>>
    /\ function_summaries = <<>>
    /\ calls = <<>>
    /\ applied = <<>>
    /\ mark = <<>>
    /\ class_methods = <<>>
    /\ import_statements = <<>>
    /\ tests_code = <<>>
    /\ md_file = <<>>
    /\ written = {}
    /\ tags = <<>>
    /\ discovered = <<>>
    /\ visited = <<>>
    /\ input_text = <<>>
    /\ input_indent = 0
    /\ formatted = <<>>

ReadFile ==
    /\ at = "START"
    /\ failure = ""
    /\ at' = "read_file"
    /\ Len(visited) < recursion_limit
    /\ visited' = Append(visited, "read_file")
    /\ source' = AllFiles[file].source
    /\ UNCHANGED <<file, new_code, pc, step, class_summaries, class_order,
                   function_summaries, calls, applied, mark>>
    /\ UNCHANGED <<failure, tree, class_methods, import_statements, tests_code,
                   md_file, written, tags, discovered>>
    /\ UNCHANGED formatter_vars

ParseSource ==
    /\ at = "read_file"
    /\ failure = ""
    /\ at' = "parse_source"
    /\ Len(visited) < recursion_limit
    /\ visited' = Append(visited, "parse_source")
    /\ LET r == Resolve(Name(file))
       IN  IF r.ok
           THEN /\ tree' = file
                /\ tags' = Append(tags, [by |-> "parse_source", tag |-> r.ext])
                /\ UNCHANGED failure
           ELSE /\ failure' = r.error
                /\ UNCHANGED <<tree, tags>>
    /\ UNCHANGED edit_vars
    /\ UNCHANGED <<class_methods, import_statements, tests_code, md_file, written,
                   discovered>>
    /\ UNCHANGED formatter_vars

Discover ==
    /\ at = "parse_source"
    /\ failure = ""
    /\ at' = "discover"
    /\ Len(visited) < recursion_limit
    /\ visited' = Append(visited, "discover")
    /\ class_methods' = [i \in 1..Len(DiscoveredNodes(tree)) |->
                            NodeOf(tree, DiscoveredNodes(tree)[i]).name]
    /\ discovered' = DiscoveredNodes(tree)
    /\ import_statements' = DiscoverImports(tree, 1)
    /\ \E message \in Outcomes(ImportReplies) :
          LET made == <<Call("imports", 0, Name(file), message)>>
          IN  /\ RaiseCount(calls \o made) <= MaxRaises
              /\ calls' = calls \o made
              /\ IF message.ok
                 THEN /\ tests_code' = extract_code_from_message(message.text) \o <<NL, NL>>
                      /\ UNCHANGED failure
                 ELSE /\ failure' = "Exception"
                      /\ UNCHANGED tests_code
    /\ UNCHANGED <<file, source, new_code, pc, step, class_summaries, class_order,
                   function_summaries, applied, mark>>
    /\ UNCHANGED <<tree, md_file, written, tags>>
    /\ UNCHANGED formatter_vars

\* edit_function_declarations up to the start of its tree walk
EnterEditFunctionDeclarations ==
    /\ at = "discover"
    /\ failure = ""
    /\ at' = "edit_function_declarations"
    /\ Len(visited) < recursion_limit
    /\ visited' = Append(visited, "edit_function_declarations")
    /\ LET r == Resolve(Name(file))
       IN  IF r.ok
           THEN /\ tags' = Append(tags, [by |-> "edit_function_declarations", tag |-> r.ext])
                /\ pc' = IF WalkPlan(tree) = <<>> THEN "sort" ELSE "walk"
                /\ mark' = [i \in 1..Len(source) |-> 0]
                /\ UNCHANGED failure
           ELSE /\ failure' = r.error
                /\ UNCHANGED <<tags, pc, mark>>
    /\ step' = 1
    /\ class_summaries' = <<>>
    /\ class_order' = <<>>
    /\ function_summaries' = <<>>
    /\ applied' = <<>>
    /\ UNCHANGED <<file, source, new_code, calls>>
    /\ UNCHANGED <<tree, class_methods, import_statements, tests_code, md_file,
                   written, discovered>>
    /\ UNCHANGED formatter_vars

WriteFileComments ==
    /\ at = "edit_function_declarations"
    /\ pc = "done"
    /\ failure = ""
    /\ at' = "write_file_comments"
    /\ Len(visited) < recursion_limit
    /\ visited' = Append(visited, "write_file_comments")
    /\ written' = written \cup {Output("", <<"comment_">> \o Name(file), new_code)}
    /\ UNCHANGED edit_vars
    /\ UNCHANGED <<failure, tree, class_methods, import_statements, tests_code,
                   md_file, tags, discovered>>
    /\ UNCHANGED formatter_vars

Documentation ==
    /\ at = "write_file_comments"
    /\ failure = ""
    /\ at' = "documentation"
    /\ Len(visited) < recursion_limit
    /\ visited' = Append(visited, "documentation")
    /\ \E reply \in Outcomes(MarkdownReplies) :
          LET made == <<Call("markdown", 0, new_code, reply)>>
          IN  /\ RaiseCount(calls \o made) <= MaxRaises
              /\ calls' = calls \o made
              /\ IF reply.ok
                 THEN /\ md_file' = reply.text
                      /\ UNCHANGED failure
                 ELSE /\ failure' = "Exception"
                      /\ UNCHANGED md_file
    /\ UNCHANGED <<file, source, new_code, pc, step, class_summaries, class_order,
                   function_summaries, applied, mark>>
    /\ UNCHANGED <<tree, class_methods, import_statements, tests_code, written,
                   tags, discovered>>
    /\ UNCHANGED formatter_vars

WriteMdFile ==
    /\ at = "documentation"
    /\ failure = ""
    /\ at' = "write_md_file"
    /\ Len(visited) < recursion_limit
    /\ visited' = Append(visited, "write_md_file")
    /\ written' = written \cup {Output("docs", <<"doc_", Name(file)[1], "md">>, md_file)}
    /\ UNCHANGED edit_vars
    /\ UNCHANGED <<failure, tree, class_methods, import_statements, tests_code,
                   md_file, tags, discovered>>
    /\ UNCHANGED formatter_vars

\* write_tests_function: class_methods.pop(0), then the test of that method
WriteTests ==
    /\ \/ at = "write_md_file"
       \/ at = "write_tests" /\ should_continue = "continue"
    /\ failure = ""
    /\ at' = "write_tests"
    /\ Len(visited) < recursion_limit
    /\ visited' = Append(visited, "write_tests")
    /\ IF class_methods = <<>>
       THEN /\ failure' = "IndexError"
            /\ UNCHANGED <<class_methods, tests_code, calls>>
       ELSE /\ class_methods' = Tail(class_methods)
            /\ \E reply \in Drawn(file, Outcomes(TestReplies), UsualTest) :
                  LET made == <<Call("test", 0, Str(Head(class_methods)), reply)>>
                  IN  /\ RaiseCount(calls \o made) <= MaxRaises
                      /\ calls' = calls \o made
                      /\ IF reply.ok
                         THEN /\ tests_code' = tests_code
                                      \o extract_code_from_message(reply.text)
                                      \o <<NL, NL>>
                              /\ UNCHANGED failure
                         ELSE /\ failure' = "Exception"
                              /\ UNCHANGED tests_code
    /\ UNCHANGED <<file, source, new_code, pc, step, class_summaries, class_order,
                   function_summaries, applied, mark>>
    /\ UNCHANGED <<tree, import_statements, md_file, written, tags, discovered>>
    /\ UNCHANGED formatter_vars

WriteTestFile ==
    /\ at = "write_tests"
    /\ should_continue = "end"
    /\ failure = ""
    /\ at' = "write_test_file"
    /\ Len(visited) < recursion_limit
    /\ visited' = Append(visited, "write_test_file")
    /\ written' = written \cup {Output("test", <<"test_">> \o Name(file), tests_code)}
    /\ UNCHANGED edit_vars
    /\ UNCHANGED <<failure, tree, class_methods, import_statements, tests_code,
                   md_file, tags, discovered>>
    /\ UNCHANGED formatter_vars

\* app.invoke gives up before the node that would exceed recursion_limit:
\* GraphRecursionError, caught by the caller ("Graph recursion limit reached.")
RecursionLimitReached ==
    /\ failure = ""
    /\ Len(visited) >= recursion_limit
    /\ at \notin {"START", "write_test_file", "formatter"}
    /\ at = "edit_function_declarations" => pc = "done"
    /\ failure' = "GraphRecursionError"
    /\ UNCHANGED edit_vars
    /\ UNCHANGED <<at, tree, class_methods, import_statements, tests_code, md_file,
                   written, tags, discovered, visited>>
    /\ UNCHANGED formatter_vars

WorkflowNext ==
    \/ ReadFile
    \/ ParseSource
    \/ Discover
    \/ EnterEditFunctionDeclarations
    \/ ProcessClassDeclaration
    \/ ProcessFunctionDeclaration
    \/ CloseClassDeclaration
    \/ CombineClassSummaries
    \/ SummarizeBareClass
    \/ SortSummaries
    \/ InsertSummary
    \/ Finish
    \/ WriteFileComments
    \/ Documentation
    \/ WriteMdFile
    \/ WriteTests
    \/ WriteTestFile
    \/ RecursionLimitReached

Workflow == WorkflowInit /\ [][WorkflowNext]_vars

(***************************************************************************)
(* The comment formatter on its own: wrap_triple_slash_comments,           *)
(* wrap_python_comments and wrap_docstring applied to a text, and to each  *)
(* other's output.                                                         *)
(***************************************************************************)
\* The most words after the marker in a generated line.
MaxWords == 2

\* The most lines in a text put together from ShortLines.
MaxLines == 2

\* The largest indent_level tried.
MaxIndent == 1

\* The most formatter calls chained on one text.
MaxApplications == 2

\* Word lengths around max_line_length less the marker and a space.
WordLengths == {1, 2, 116, 117, 120, 121}

Word(n) == [i \in 1..n |-> "w"]

RECURSIVE MarkerLine(_)
\* The marker followed by words of the given lengths.
MarkerLine(lengths) ==
    IF lengths = <<>> THEN Str("///")
    ELSE MarkerLine(SubSeq(lengths, 1, Len(lengths) - 1))
             \o <<" ">> \o Word(lengths[Len(lengths)])

MarkerLines ==
    {MarkerLine(ws) : ws \in UNION {[1..k -> WordLengths] : k \in 0..MaxWords}}

ShortLines ==
    { <<>>, Str("Ab"), Str("/// a"), Str("/// a b"), Str(" /// c "),
      Str("///     Ab"), Str("///     A: b"), Str("/// ") }

ShortTexts ==
    {Join(ls, <<NL>>) : ls \in UNION {[1..k -> ShortLines] : k \in 1..MaxLines}}

\* The texts generate_function_summary and chain_summarize hand on.
GeneratedTexts ==
    {generate_function_summary(Returned(t), NotCalled, "python").value : t \in PythonReplies}
        \cup {generate_function_summary(Returned(t), NotCalled, "swift").value : t \in SwiftReplies}
        \cup {chain_summarize(Returned(t), "python") : t \in PythonSummaries}

Texts == MarkerLines \cup ShortTexts \cup GeneratedTexts

\* The text the next formatter call works on.
Current == IF formatted = <<>> THEN input_text ELSE formatted[Len(formatted)].output

Formatting(op, output) ==
    /\ Len(formatted) < MaxApplications
    /\ formatted' = Append(formatted, [op |-> op, input |-> Current, output |-> output])
    /\ UNCHANGED <<input_text, input_indent>>
    /\ UNCHANGED edit_vars
    /\ UNCHANGED workflow_vars

FormatterInit ==
    /\ input_text \in Texts
    /\ input_indent \in 0..MaxIndent
    /\ formatted = <<>>
    /\ file = 1
    /\ source = <<>>
    /\ new_code = <<>>
    /\ pc = "formatter"
    /\ step = 1
    /\ class_summaries = <<>>
    /\ class_order = <<>>
    /\ function_summaries = <<>>
    /\ calls = <<>>
    /\ applied = <<>>
    /\ mark = <<>>
    /\ at = "formatter"
    /\ failure = ""
    /\ tree = 0
    /\ class_methods = <<>>
    /\ import_statements = <<>>
    /\ tests_code = <<>>
    /\ md_file = <<>>
    /\ written = {}
    /\ tags = <<>>
    /\ discovered = <<>>
    /\ visited = <<>>

WrapTripleSlashComments ==
    Formatting("wrap_triple_slash_comments",
               wrap_triple_slash_comments(Current, DefaultMaxLineLength))

WrapPythonComments ==
    Formatting("wrap_python_comments", wrap_python_comments(Current))

WrapDocstring ==
    Formatting("wrap_docstring", wrap_docstring(Current, input_indent))

FormatterNext ==
    \/ WrapTripleSlashComments
    \/ WrapPythonComments
    \/ WrapDocstring

Formatter == FormatterInit /\ [][FormatterNext]_vars

(***************************************************************************)
(* Vocabulary of the properties                                            *)
(***************************************************************************)
StartByte(n) == NodeOf(file, n).start_byte

\* Iteration j of the insertion loop put bytes into the buffer.
Inserted(j) == applied[j].pos # -1

\* The offset, counted in bytes of the original file, at which the block of
\* iteration j sits in the buffer.
OriginalOffset(j) ==
    LET first == Min({i \in 1..Len(mark) : mark[i] = j})
    IN  Cardinality({i \in 1..(first - 1) : mark[i] = 0})

\* The bytes of buf that come from the original file.
OriginalBytes(buf, mk) ==
    LET idx == SelectSeq([i \in 1..Len(buf) |-> i], LAMBDA i : mk[i] = 0)
    IN  [j \in 1..Len(idx) |-> buf[idx[j]]]

\* The start of the line that holds byte p of the original file.
LineStart(p) == RFind(Original, <<NL>>, 0, p) + 1

\* The iterations of the insertion loop that handled node n.
IterationsOf(n) == {j \in 1..Len(applied) : applied[j].node = n}

\* The entry of node n in the summaries list.
EntryOf(n) ==
    function_summaries[CHOOSE i \in 1..Len(function_summaries) :
                           function_summaries[i].node = n]

HasEntry(n) == \E i \in 1..Len(function_summaries) : function_summaries[i].node = n

\* The text rendered for node n is not the empty marker.
RendersText(n) ==
    Ext(file) = "swift" \/ wrap_docstring(EntryOf(n).summary, NodeOf(file, n).col) # <<>>

\* The primary calls made so far, in call order.
PrimaryCalls == SelectSeq(calls, LAMBDA c : c.kind = "primary")

RECURSIVE RewriteMarked(_, _, _, _, _)
\* RewriteFrom, keeping for every byte of the buffer the node whose block it
\* belongs to (0: a byte of the original file).
RewriteMarked(src, mk, f, sorted, k) ==
    IF k = 0 THEN [source |-> src, mark |-> mk]
    ELSE LET e == Edit(src, f, sorted[k])
         IN  RewriteMarked(Splice(src, e.pos, e.text),
                           Splice(mk, e.pos, [i \in 1..Len(e.text) |-> sorted[k].node]),
                           f, sorted, k - 1)

\* Where, in bytes of the original file, the block of node n sits in a buffer
\* marked by node; -1 when the node has no block.
PlacementIn(mk, n) ==
    LET B == {i \in 1..Len(mk) : mk[i] = n}
    IN  IF B = {} THEN -1
        ELSE Cardinality({i \in 1..(Min(B) - 1) : mk[i] = 0})

\* Where the block of node n sits in the buffer of this run; -1 for no block.
Placement(n) ==
    LET J == {j \in IterationsOf(n) : Inserted(j)}
    IN  IF J = {} THEN -1 ELSE OriginalOffset(CHOOSE j \in J : TRUE)

(***************************************************************************)
(* C1.  Start-byte validity: when an entry is applied, every insertion     *)
(* made before it in the pass was made at or after the entry's node's      *)
(* start_byte, and the buffer's prefix up to that start_byte is the        *)
(* original file's prefix.                                                 *)
(***************************************************************************)
C1_StartByteValid ==
    \A j \in 1..Len(applied) :
        /\ applied[j].intact
        /\ \A i \in 1..(j - 1) :
               Inserted(i) => applied[i].pos >= StartByte(applied[j].node)

(***************************************************************************)
(* C2.  Offset correctness: the buffer without the inserted bytes is the   *)
(* original file, and no block is inserted inside a block inserted before. *)
(***************************************************************************)
C2_OffsetCorrectness ==
    /\ OriginalBytes(source, mark) = Original
    /\ \A j \in 1..Len(applied) : ~applied[j].inside

(***************************************************************************)
(* C3.  Scenario A: once the pass is done, every Python function whose     *)
(* header ends with a colon and a line break, and whose docstring renders  *)
(* non-empty, has exactly one block, sitting right after that line break.  *)
(***************************************************************************)
C3_DocstringAfterHeader ==
    pc = "done" =>
        \A n \in 1..Len(AllFiles[file].nodes) :
            ( /\ Ext(file) = "python"
              /\ NodeOf(file, n).type = "function_definition"
              /\ HasEntry(n)
              /\ RendersText(n)
              /\ Original[NodeOf(file, n).sig + 2] = NL )
            => /\ Cardinality({j \in IterationsOf(n) : Inserted(j)}) = 1
               /\ \A j \in IterationsOf(n) :
                      Inserted(j) => OriginalOffset(j) = NodeOf(file, n).sig + 2

(***************************************************************************)
(* C4.  Multi-line signature guard: on the non-Swift branch no block is    *)
(* inserted after the declaration's start and before the delimiter that    *)
(* ends its signature.                                                     *)
(***************************************************************************)
C4_NotInsideSignature ==
    \A j \in 1..Len(applied) :
        (Ext(file) # "swift" /\ Inserted(j) /\ applied[j].sig_intact)
        => ~( /\ StartByte(applied[j].node) < applied[j].pos
              /\ applied[j].pos <= NodeOf(file, applied[j].node).sig )

(***************************************************************************)
(* C5.  Fallback insertion point: when no line break follows the           *)
(* signature's delimiter, the block is inserted at the start of the        *)
(* declaration's own header line.                                          *)
(***************************************************************************)
C5_FallbackAtOwnHeader ==
    \A j \in 1..Len(applied) :
        (applied[j].fallback /\ applied[j].intact)
        => applied[j].pos = LineStart(StartByte(applied[j].node))

(***************************************************************************)
(* C6.  Scenario B: for a class with k >= 1 members, all k + 1 entries     *)
(* rendering non-empty text, the finished pass has made exactly k + 1      *)
(* insertions for the class and its members.                               *)
(***************************************************************************)
C6_ClassInsertions ==
    pc = "done" =>
        \A c \in DOMAIN class_summaries :
            LET members == class_summaries[c].items
                group == {c} \cup {members[i].node : i \in 1..Len(members)}
            IN  ( /\ class_summaries[c].kind = "list"
                  /\ \A n \in group : HasEntry(n) /\ RendersText(n) )
                => Cardinality({j \in 1..Len(applied) :
                                    applied[j].node \in group /\ Inserted(j)})
                       = Len(members) + 1

(***************************************************************************)
(* C7.  Application order: from the sort on the list is ascending in       *)
(* start_byte, and the insertion loop handles the entries in descending    *)
(* start_byte order, each entry once.                                      *)
(***************************************************************************)
C7_DescendingApplication ==
    /\ pc \in {"insert", "done"} =>
           \A i, j \in 1..Len(function_summaries) :
               i < j => StartByte(function_summaries[i].node)
                            <= StartByte(function_summaries[j].node)
    /\ \A i, j \in 1..Len(applied) :
           StartByte(applied[i].node) < StartByte(applied[j].node) => j < i
    /\ pc = "done" =>
           /\ Len(applied) = Len(function_summaries)
           /\ \A k \in 1..Len(applied) : applied[k].node = Reversed(k).node

\* The pass is done on a file whose entries were appended out of start_byte
\* order, and made at least two insertions.
C7_Witness ==
    /\ pc = "done"
    /\ \E i, j \in 1..Len(calls) :
           i < j /\ StartByte(calls[i].node) > StartByte(calls[j].node)
    /\ Cardinality({j \in 1..Len(applied) : Inserted(j)}) >= 2

(***************************************************************************)
(* C8.  Order independence: the final buffer is what the pass produces     *)
(* from any permutation of the appended entries.                           *)
(***************************************************************************)
C8_OrderIndependence ==
    pc = "done" =>
        \A p \in Permutations(1..Len(function_summaries)) :
            RewritePass(file, [i \in 1..Len(function_summaries) |->
                                   function_summaries[p[i]]]) = source

\* The pass is done with at least three entries, appended out of start_byte
\* order, and at least two insertions.
C8_Witness ==
    /\ pc = "done"
    /\ Len(function_summaries) >= 3
    /\ \E i, j \in 1..Len(calls) :
           i < j /\ StartByte(calls[i].node) > StartByte(calls[j].node)
    /\ Cardinality({j \in 1..Len(applied) : Inserted(j)}) >= 2
    /\ source # Original

(***************************************************************************)
(* C9.  Empty input: when the documentation text obtained for a node is    *)
(* empty or whitespace-only, the node's iteration inserts no byte.         *)
(***************************************************************************)
C9_EmptyInputNoInsertion ==
    \A j \in 1..Len(applied) :
        \A k \in 1..Len(calls) :
            ( /\ calls[k].kind = "primary"
              /\ calls[k].node = applied[j].node
              /\ calls[k].result.ok
              /\ Strip(generate_function_documentation(calls[k].result.text,
                                                       Ext(file))) = <<>> )
            => ~Inserted(j) /\ applied[j].text = <<>>

(***************************************************************************)
(* Fallback on failure (the part of Scenario D about the summaries): a     *)
(* primary call that raises is followed by the fallback summarization of   *)
(* the same declaration's text, whose result is the declaration's summary; *)
(* the exception does not leave the pass; every declaration whose primary  *)
(* call returned keeps the summary rendered from its own reply, and every  *)
(* entry gets its iteration of the insertion loop.                         *)
(***************************************************************************)
FallbackOnFailure ==
    /\ pc # "aborted"
    /\ \A k \in 1..Len(calls) :
           calls[k].kind = "primary" =>
               /\ HasEntry(calls[k].node)
               /\ calls[k].request = NodeText(file, calls[k].node)
               /\ IF calls[k].result.ok
                  THEN EntryOf(calls[k].node).summary =
                           generate_function_summary(calls[k].result, NotCalled,
                                                     Ext(file)).value
                  ELSE /\ k < Len(calls)
                       /\ calls[k + 1].kind = "fallback"
                       /\ calls[k + 1].node = calls[k].node
                       /\ calls[k + 1].request = NodeText(file, calls[k].node)
                       /\ EntryOf(calls[k].node).summary =
                              chain_summarize(calls[k + 1].result, Ext(file))
    /\ Cardinality({i \in 1..Len(function_summaries) :
                        NodeOf(file, function_summaries[i].node).type \in FunctionTypes})
           = Len(PrimaryCalls)
    /\ pc = "done" =>
           \A i \in 1..Len(function_summaries) :
               Cardinality(IterationsOf(function_summaries[i].node)) = 1

(***************************************************************************)
(* C10.  Scenario D: a declaration whose primary call raises gets the      *)
(* fallback summary, the pass is not aborted, and every other declaration  *)
(* gets its entry and the insertion it would have got had the call         *)
(* returned a reply: its block, or absence of block, at the same place.    *)
(***************************************************************************)
C10_ScenarioD ==
    /\ FallbackOnFailure
    /\ pc = "done" =>
           \A k \in 1..Len(calls) :
               (calls[k].kind = "primary" /\ ~calls[k].result.ok) =>
                   \A reply \in PrimaryOutcomes(Ext(file)) \ {Raised} :
                       LET d == calls[k].node
                           would == [i \in 1..Len(function_summaries) |->
                                        IF function_summaries[i].node = d
                                        THEN Entry(d, generate_function_summary(
                                                          reply, NotCalled, Ext(file)).value)
                                        ELSE function_summaries[i]]
                           run == RewriteMarked(Original,
                                                [i \in 1..Len(Original) |-> 0],
                                                file, would, Len(would))
                       IN  \A i \in 1..Len(function_summaries) :
                               function_summaries[i].node # d =>
                                   PlacementIn(run.mark, function_summaries[i].node)
                                       = Placement(function_summaries[i].node)

(***************************************************************************)
(* C11.  Double failure: when the primary call and the fallback            *)
(* summarization of a declaration both raise, the declaration's iteration  *)
(* of the insertion loop inserts no byte, on the Swift branch and on the   *)
(* other one; the pass is not aborted and every entry gets its iteration.  *)
(***************************************************************************)
DoubleFailure(n) ==
    \E k \in 1..(Len(calls) - 1) :
        /\ calls[k].kind = "primary"
        /\ calls[k].node = n
        /\ ~calls[k].result.ok
        /\ calls[k + 1].kind = "fallback"
        /\ calls[k + 1].node = n
        /\ ~calls[k + 1].result.ok

C11_DoubleFailureSkips ==
    /\ pc # "aborted"
    /\ \A j \in 1..Len(applied) :
           DoubleFailure(applied[j].node)
               => ~Inserted(j) /\ applied[j].text = <<>>
    /\ pc = "done" =>
           \A i \in 1..Len(function_summaries) :
               Cardinality(IterationsOf(function_summaries[i].node)) = 1

(***************************************************************************)
(* C12.  Scenario C: once the class loop is over, every class without      *)
(* discoverable member declarations (no body child of a recognised type,   *)
(* or a body without function or property children) has exactly one entry, *)
(* anchored at the class node; the entry's text is chain_summarize of one  *)
(* call made on the class's whole text, and no combined summary was        *)
(* requested for the class.                                                *)
(***************************************************************************)
BareClasses ==
    {c \in 1..Len(AllFiles[file].nodes) :
        /\ NodeOf(file, c).type \in ClassTypes
        /\ \A b \in 1..Len(AllFiles[file].nodes) :
               (NodeOf(file, b).parent = c /\ NodeOf(file, b).type \in BodyTypes)
               => \A m \in 1..Len(AllFiles[file].nodes) :
                      NodeOf(file, m).parent = b
                          => NodeOf(file, m).type \notin FunctionTypes}

C12_ScenarioC ==
    \A c \in BareClasses :
        /\ \A k \in 1..Len(calls) : ~(calls[k].kind = "combined" /\ calls[k].node = c)
        /\ pc \in {"sort", "insert", "done"} =>
               /\ Cardinality({i \in 1..Len(function_summaries) :
                                   function_summaries[i].node = c}) = 1
               /\ Cardinality({k \in 1..Len(calls) : calls[k].node = c}) = 1
               /\ \E k \in 1..Len(calls) :
                      /\ calls[k].kind = "class"
                      /\ calls[k].node = c
                      /\ calls[k].request = NodeText(file, c)
                      /\ EntryOf(c).summary = chain_summarize(calls[k].result, Ext(file))

\* The pass is done on a file holding a class that has no body child of a
\* recognised type, and the class's entry carries a text.
C12_Witness ==
    /\ pc = "done"
    /\ \E c \in BareClasses :
           /\ ClassBody(file, c) = 0
           /\ EntryOf(c).summary # <<>>

(***************************************************************************)
(* Vocabulary of the formatter's properties                                *)
(***************************************************************************)
\* The lines of a text; a text without characters has none.
LinesOf(t) == IF t = <<>> THEN <<>> ELSE SplitLines(t)

Marker == Str("///")

RECURSIVE WordsOfLines(_)
\* The words of the lines, in order, the marker tokens left out.
WordsOfLines(lines) ==
    IF lines = <<>> THEN <<>>
    ELSE SelectSeq(SplitWords(Head(lines)), LAMBDA w : w # Marker)
             \o WordsOfLines(Tail(lines))

\* The calls of the formatter function `op` made so far.
FormattedBy(op) == {k \in 1..Len(formatted) : formatted[k].op = op}

(***************************************************************************)
(* C13.  P4, wrapping law: a line returned by wrap_triple_slash_comments   *)
(* for the width 120 is longer than 120 characters only when it holds a    *)
(* word that alone is longer than 120 characters.                          *)
(***************************************************************************)
C13_WrappingLaw ==
    \A k \in FormattedBy("wrap_triple_slash_comments") :
        LET lines == LinesOf(formatted[k].output)
        IN  \A i \in 1..Len(lines) :
                Len(lines[i]) > DefaultMaxLineLength
                    => \E w \in 1..Len(SplitWords(lines[i])) :
                           Len(SplitWords(lines[i])[w]) > DefaultMaxLineLength

(***************************************************************************)
(* C14.  Line-prefixed style: wrap_triple_slash_comments returns the words *)
(* of all its input lines, in order and whole, and every line it returns   *)
(* starts with the marker.                                                 *)
(***************************************************************************)
C14_EveryLineWrapped ==
    \A k \in FormattedBy("wrap_triple_slash_comments") :
        LET lines == LinesOf(formatted[k].output)
        IN  /\ \A i \in 1..Len(lines) : StartsWith(lines[i], Marker)
            /\ WordsOfLines(lines) = WordsOfLines(LinesOf(formatted[k].input))

(***************************************************************************)
(* C15.  Indented-block style: for a text that is not blank, wrap_docstring *)
(* returns the opening delimiter alone at indent_level + 4, then the input *)
(* lines without their marker, each at indent_level + 4, then a last line  *)
(* holding the closing delimiter alone.  (A last input line that holds     *)
(* nothing but the marker may be the line of the closing delimiter.)       *)
(***************************************************************************)
Delimiter == Str("\"\"\"")

\* A line without its marker and the white space around it.
Unmarked(line) ==
    LET t == Strip(line)
    IN  LStrip(IF StartsWith(t, Marker) THEN SliceFrom(t, Len(Marker)) ELSE t)

\* The content lines a text has: its lines without their markers, a last
\* line that held only the marker left out.
ContentLines(t) ==
    LET lines == [i \in 1..Len(SplitLines(t)) |-> Unmarked(SplitLines(t)[i])]
    IN  IF lines[Len(lines)] = <<>> THEN SubSeq(lines, 1, Len(lines) - 1) ELSE lines

C15_IndentedBlock ==
    \A k \in FormattedBy("wrap_docstring") :
        Strip(formatted[k].input) # <<>> =>
            LET lines == LinesOf(formatted[k].output)
                indent == Spaces(input_indent + BlockIndent)
                content == ContentLines(formatted[k].input)
            IN  /\ Len(lines) >= 2
                /\ lines[1] = indent \o Delimiter
                /\ Strip(lines[Len(lines)]) = Delimiter
                /\ SubSeq(lines, 2, Len(lines) - 1)
                       = [i \in 1..Len(content) |-> indent \o content[i]]

(***************************************************************************)
(* Vocabulary of the workflow's properties                                 *)
(***************************************************************************)
\* discover_function has run and collected its names.
IsDiscovered == at \notin {"START", "read_file", "parse_source", "formatter"}

\* The tree walk of edit_function_declarations is over.
IsWalked == pc \in {"combine", "sort", "insert", "done"}

RECURSIVE EnclosedByClass(_, _)
\* Node n of file f has an ancestor that is a class.
EnclosedByClass(f, n) ==
    LET parent == NodeOf(f, n).parent
    IN  /\ parent # 0
        /\ \/ NodeOf(f, parent).type \in ClassTypes
           \/ EnclosedByClass(f, parent)

\* The function-like and property-like nodes of file f outside every class.
TopLevelDeclarations(f) ==
    {n \in 1..Len(AllFiles[f].nodes) :
        NodeOf(f, n).type \in FunctionTypes /\ ~EnclosedByClass(f, n)}

(***************************************************************************)
(* C16.  P5, discovery ordering: the declarations discover_function        *)
(* collects, and the declarations edit_function_declarations generates     *)
(* documentation for, come in ascending start_byte order.                  *)
(***************************************************************************)
C16_DocumentOrder ==
    /\ \A i, j \in 1..Len(discovered) :
           i < j => NodeOf(tree, discovered[i]).start_byte
                        < NodeOf(tree, discovered[j]).start_byte
    /\ \A i, j \in 1..Len(PrimaryCalls) :
           i < j => NodeOf(tree, PrimaryCalls[i].node).start_byte
                        < NodeOf(tree, PrimaryCalls[j].node).start_byte

(***************************************************************************)
(* C17.  Top-level declarations: every function-like or property-like node *)
(* outside every class, at any depth of the tree, is among the             *)
(* declarations discover_function collected and has an entry once the tree *)
(* walk of edit_function_declarations is over.                             *)
(***************************************************************************)
C17_TopLevelCollected ==
    /\ IsDiscovered =>
           \A n \in TopLevelDeclarations(tree) :
               \E i \in 1..Len(discovered) : discovered[i] = n
    /\ (at = "edit_function_declarations" /\ IsWalked) =>
           \A n \in TopLevelDeclarations(tree) : HasEntry(n)

(***************************************************************************)
(* C18.  Generation sequencing: the primary calls are made for the         *)
(* declarations in discovery order, one call for each declaration; a       *)
(* combined summary is requested for a class only after the summaries of   *)
(* all its members were produced, and its request is the header followed   *)
(* by exactly these members' summaries, in member order.                   *)
(***************************************************************************)
\* The function and property declarations in the body of class c, in
\* ascending start_byte order.
MembersInOrder(c) ==
    LET S == {n \in 1..Len(AllFiles[tree].nodes) :
                 /\ NodeOf(tree, n).type \in FunctionTypes
                 /\ NodeOf(tree, n).parent # 0
                 /\ NodeOf(tree, NodeOf(tree, n).parent).type \in BodyTypes
                 /\ NodeOf(tree, NodeOf(tree, n).parent).parent = c}
    IN  CHOOSE q \in [1..Cardinality(S) -> S] :
            \A i, j \in 1..Cardinality(S) :
                i < j => NodeOf(tree, q[i]).start_byte < NodeOf(tree, q[j]).start_byte

\* Call k is the last call made for the summary of declaration m, and calls
\* before k produced it.
SummaryProducedBefore(m, k) ==
    \E j \in 1..(k - 1) :
        /\ calls[j].kind = "primary"
        /\ calls[j].node = m
        /\ ~calls[j].result.ok =>
               /\ j + 1 < k
               /\ calls[j + 1].kind = "fallback"
               /\ calls[j + 1].node = m

Extension(name) == IF Len(name) >= 2 THEN name[Len(name)] ELSE ""

C19_UnsupportedLanguageFatal ==
    Extension(Name(file)) \notin DOMAIN LANG_MAPPINGS =>
        /\ at \in {"START", "read_file", "parse_source"}
        /\ at = "parse_source" => failure # ""
        /\ written = {}
        /\ calls = <<>>
        /\ pc = "idle"

(***************************************************************************)
(* C20.  Language resolution: for a file whose extension (the text after   *)
(* the last dot of its name) is a key of the mapping py -> python,         *)
(* js -> javascript, ts -> typescript, swift -> swift, parse_source        *)
(* resolves the mapped tag and does not fail, and                          *)
(* edit_function_declarations resolves the same tag.                       *)
(***************************************************************************)
Resolved(by) == {i \in 1..Len(tags) : tags[i].by = by}

C20_LanguageResolution ==
    /\ LANG_MAPPINGS = [e \in {"py", "js", "ts", "swift"} |->
                            IF e = "py" THEN "python"
                            ELSE IF e = "js" THEN "javascript"
                            ELSE IF e = "ts" THEN "typescript"
                            ELSE "swift"]
    /\ Extension(Name(file)) \in DOMAIN LANG_MAPPINGS =>
           /\ \A i \in 1..Len(tags) : tags[i].tag = LANG_MAPPINGS[Extension(Name(file))]
           /\ at = "parse_source" => failure = "" /\ Resolved("parse_source") # {}
           /\ (at = "edit_function_declarations")
                  => failure = "" /\ Resolved("edit_function_declarations") # {}

(***************************************************************************)
(* Vocabulary of the properties of test generation                         *)
(***************************************************************************)
\* How many times the workflow node was executed.
Executions(node) == Cardinality({k \in 1..Len(visited) : visited[k] = node})

TestCalls == SelectSeq(calls, LAMBDA c : c.kind = "test")

\* The names of the discovered declarations i..Len(discovered), in discovery order.
DiscoveredNamesFrom(i) ==
    [k \in 1..(Len(discovered) - i + 1) |-> NodeOf(tree, discovered[k + i - 1]).name]

\* What a reply of a chain adds to tests_code.
TestBlock(c) == extract_code_from_message(c.result.text) \o <<NL, NL>>

RECURSIVE TestBlocks(_)
TestBlocks(cs) == IF cs = <<>> THEN <<>> ELSE TestBlock(Head(cs)) \o TestBlocks(Tail(cs))

ImportPreamble == TestBlocks(SelectSeq(calls, LAMBDA c : c.kind = "imports"))

(***************************************************************************)
(* C21.  Test generation terminates: in a run whose discovery found        *)
(* N >= 1 methods, each execution of write_tests removes the first         *)
(* remaining method and asks for the test of that method, so that the      *)
(* tests are asked for in discovery order; the run is not cut by the       *)
(* recursion limit (only an exception of the collaborator ends it early);  *)
(* after N executions should_continue says "end"; and once write_test_file *)
(* has run, write_tests has run exactly N times, write_test_file once, and *)
(* tests_code, the content of the test file, is the import preamble        *)
(* followed by the N generated blocks in order.                            *)
(***************************************************************************)
C21_TestGenerationTerminates ==
    (IsDiscovered /\ Len(discovered) >= 1) =>
        /\ Executions("write_tests") <= Len(discovered)
        /\ class_methods = DiscoveredNamesFrom(Executions("write_tests") + 1)
        /\ \A i \in 1..Len(TestCalls) :
              TestCalls[i].request = Str(NodeOf(tree, discovered[i]).name)
        /\ failure # "" => failure = "Exception"
        /\ (at = "write_tests" /\ failure = "")
              => (should_continue = "end" <=> Executions("write_tests") = Len(discovered))
        /\ at = "write_test_file" =>
              /\ Executions("write_tests") = Len(discovered)
              /\ Executions("write_test_file") = 1
              /\ Len(TestCalls) = Len(discovered)
              /\ tests_code = ImportPreamble \o TestBlocks(TestCalls)
              /\ Output("test", <<"test_">> \o Name(file), tests_code) \in written

(***************************************************************************)
(* C22.  Parse once, generate many, insert once: parse_source runs once in *)
(* a run and sets the tree while state["source"] holds the file's original *)
(* bytes, and the tree is never set again; every call                      *)
(* edit_function_declarations makes to the collaborator (member            *)
(* documentation, fallback summary, combined and class summary) is made    *)
(* while state["source"] still holds the original bytes and no iteration   *)
(* of the insertion loop has run; once an iteration has run, no summary    *)
(* entry is created or changed.                                            *)
(***************************************************************************)
GenerationCalls ==
    SelectSeq(calls, LAMBDA c : c.kind \in {"primary", "fallback", "combined", "class"})

C22_ParseOnceInsertOnce ==
    /\ [](Executions("parse_source") <= 1)
    /\ [][ /\ tree' # tree =>
                /\ tree = 0
                /\ tree' = file
                /\ source = AllFiles[file].source
                /\ applied = <<>>
           /\ GenerationCalls' # GenerationCalls =>
                /\ source = AllFiles[file].source
                /\ applied = <<>>
                /\ tree = file
           /\ (applied # <<>> \/ (tree # 0 /\ source # AllFiles[file].source)) =>
                function_summaries' = function_summaries ]_vars

\* A finished pass that made member, fallback and combined calls, and then at
\* least two insertions, in a run that parsed the file.
C22_Witness ==
    /\ pc = "done"
    /\ Executions("parse_source") = 1
    /\ \A kind \in {"primary", "fallback", "combined"} :
          \E i \in 1..Len(calls) : calls[i].kind = kind
    /\ Cardinality({j \in 1..Len(applied) : Inserted(j)}) >= 2
    /\ source # AllFiles[file].source

(***************************************************************************)
(* C23.  write_tests never pops from an empty list: every execution of     *)
(* write_tests finds a method in state["class_methods"]; and a run whose   *)
(* discovery found no named function never executes write_tests and is     *)
(* ended early by nothing but an exception of the collaborator, so that it *)
(* goes on to write_test_file.                                             *)
(***************************************************************************)
C23_NeverPopsEmpty ==
    IsDiscovered =>
        /\ Executions("write_tests") <= Len(discovered)
        /\ at = "write_tests" => failure # "IndexError"
        /\ Len(discovered) = 0 =>
              /\ Executions("write_tests") = 0
              /\ failure # "" => failure = "Exception"

(***************************************************************************)
(* C24.  Idempotence: wrap_triple_slash_comments applied to its own output *)
(* returns that output, wrap(wrap(t)) = wrap(t), as the Swift path of      *)
(* generate_function_summary, which wraps the text                         *)
(* generate_function_documentation has wrapped already, needs it.          *)
(***************************************************************************)
C24_WrapIdempotent ==
    \A k \in FormattedBy("wrap_triple_slash_comments") :
        (k + 1) \in FormattedBy("wrap_triple_slash_comments") =>
            /\ formatted[k + 1].input = formatted[k].output
            /\ formatted[k + 1].output = formatted[k].output

====
